---- MODULE Spec2Model ----
(***************************************************************************)
(* Model of sanic/reloader_helpers.py: the auto-reload watchdog.           *)
(*                                                                         *)
(* The supervisor is one Python thread.  Its position in watchdog() is pc; *)
(* a Python-level signal handler runs on the same thread between two       *)
(* statements, so while a handler is active (hpc # "none") the main code   *)
(* does not advance.  The supervised children, the watched files and the   *)
(* signals are the environment.                                            *)
(***************************************************************************)
EXTENDS Integers, Sequences, FiniteSets, TLC

\* Bounds of the model.
MaxLaunch == 2      \* children launched in one run (initial child included)
MaxTime == 1        \* modification times are 0..MaxTime
MaxFiles == 2       \* filenames yielded by _iter_module_files in one cycle
NumPaths == 2       \* distinct file paths
NumProcs == 4       \* processes of the tree handed to kill_process_children
MaxDepth == 3       \* components of a module's __file__

Paths == 1..NumPaths
Times == 0..MaxTime
Children == 1..MaxLaunch
Platforms == {"linux", "darwin", "other"}
Argv0s == {"", "-c", "app.py"}
Signals == {"SIGTERM", "SIGINT"}
TreePids == 1..NumProcs

VARIABLES
    platform,        \* sys.platform
    argv0,           \* sys.argv[0]
    pc,              \* position of the main code in watchdog()
    hpc,             \* position inside kill_program_completely, "none" if no handler ran
    hproc,           \* the proc argument of the running handler (0: none)
    handlers,        \* signals for which signal.signal() installed the lambda
    worker_process,  \* the local variable worker_process (0: not yet assigned)
    newproc,         \* Popen object returned at line 159, not yet stored (0: none)
    launched,        \* number of children launched so far; children are 1..launched
    alive,           \* launched children that are still running
    sent,            \* sent[c]: signals the supervisor has sent to child c itself
    treeKilled,      \* children c for which kill_process_children(c.pid) returned
    mtimes,          \* the dict mtimes: a function on the paths that have an entry
    need_reload,     \* the local variable need_reload
    yielded,         \* filenames the generator has yielded in this cycle
    obs,             \* what the stats of the running for loop saw, in order
    detected,        \* poll cycles that reached line 156 with need_reload set
    \* One call of kill_process_children(pid) on a process tree, step by step.
    tpc,                 \* position in kill_process_children / _unix ("idle": no call)
    tparent,             \* tparent[p]: parent of process p, 0 when it is not in the tree
    talive,              \* processes that exist (have a /proc entry)
    children_list_pid,   \* pids of line 70 the for loop of line 72 has not taken yet
    child_pid,           \* loop variable of line 72 (0: none)
    children_list_pid_2, \* pids of line 80 the for loop of line 81 has not taken yet
    rlist,               \* the pids line 70 read
    listed,              \* pairs <<c, g>>: line 80 read g in the child list of c
    signaled,            \* pids os.kill or pkill was called on
    \* _iter_module_files() working on one module of sys.modules, step by step.
    epc,             \* position in the loop body of lines 19-32 ("idle": no call)
    efile,           \* the module's __file__
    filename,        \* the local variable filename
    old,             \* the local variable old: << >> is None, <<f>> is the path f
    walked,          \* times the body of the while loop ran
    efound,          \* <<f>>: os.path.isfile(f) returned True; << >>: it never did
    eyield           \* what the generator yielded for the module (<< >>: nothing)

vars == <<platform, argv0, pc, hpc, hproc, handlers, worker_process, newproc,
          launched, alive, sent, treeKilled, mtimes, need_reload, yielded, obs,
          detected, tpc, tparent, talive, children_list_pid, child_pid, children_list_pid_2,
          rlist, listed, signaled, epc, efile, filename, old, walked, efound,
          eyield>>

procVars == <<launched, alive, sent, treeKilled>>
pollVars == <<mtimes, need_reload, yielded, obs, detected>>
treeVars == <<tpc, tparent, talive, children_list_pid, child_pid,
              children_list_pid_2, rlist, listed, signaled>>
enumVars == <<epc, efile, filename, old, walked, efound, eyield>>
\* What no step of watchdog() changes: the inputs and the calls that are
\* followed separately.
constVars == <<platform, argv0, treeVars, enumVars>>

\* The supervisor process still exists.
Running == pc \notin {"exited", "error", "killed", "interrupted"}

\* The main code may take a step: no handler is executing on the thread.
MainAt(p) == pc = p /\ hpc = "none"

\* No call of kill_process_children is followed step by step.
TreeIdle ==
    /\ tpc = "idle"
    /\ tparent = [p \in TreePids |-> 0]
    /\ talive = {}
    /\ children_list_pid = {}
    /\ child_pid = 0
    /\ children_list_pid_2 = {}
    /\ rlist = {}
    /\ listed = {}
    /\ signaled = {}

\* The empty string.
EmptyPath == [abs |-> FALSE, comps |-> << >>]

\* No module of sys.modules is followed step by step.
EnumIdle ==
    /\ epc = "idle"
    /\ efile = EmptyPath
    /\ filename = EmptyPath
    /\ old = << >>
    /\ walked = 0
    /\ efound = << >>
    /\ eyield = << >>

Init ==
    /\ platform \in Platforms
    /\ argv0 \in Argv0s
    /\ TreeIdle
    /\ EnumIdle
    /\ pc = "launch"
    /\ hpc = "none"
    /\ hproc = 0
    /\ handlers = {}
    /\ worker_process = 0
    /\ newproc = 0
    /\ launched = 0
    /\ alive = {}
    /\ sent = [c \in Children |-> {}]
    /\ treeKilled = {}
    /\ mtimes = [p \in {} |-> 0]
    /\ need_reload = FALSE
    /\ yielded = 0
    /\ obs = << >>
    /\ detected = 0

(***************************************************************************)
(* ChildProcessLauncher                                                    *)
(***************************************************************************)

\* Variant of ArgsRaise: only the empty argv[0] is refused.
ArgsRaiseOnlyEmpty == argv0 = ""

\* _get_args_for_reloading raises RuntimeError for these argv[0].
ArgsRaise == argv0 \in {"", "-c"}

\* restart_with_reloader(): subprocess.Popen either starts child launched+1
\* or raises (OSError from fork/exec/getcwd).  started = FALSE is the raise.
PopenOutcomes == IF ArgsRaise THEN {FALSE} ELSE {TRUE, FALSE}

\* Line 133: worker_process = restart_with_reloader().  No handler is
\* installed yet, so the call and the store are one step.
LaunchInitial ==
    /\ MainAt("launch")
    /\ \E started \in PopenOutcomes :
          IF started
          THEN /\ launched' = launched + 1
               /\ alive' = alive \cup {launched + 1}
               /\ worker_process' = launched + 1
               /\ pc' = "reg_sigterm"
          ELSE /\ pc' = "error"
               /\ UNCHANGED <<launched, alive, worker_process>>
    /\ UNCHANGED <<constVars, hpc, hproc, handlers, newproc, sent, treeKilled,
                   pollVars>>

\* Lines 134-136.
RegisterSIGTERM ==
    /\ MainAt("reg_sigterm")
    /\ handlers' = handlers \cup {"SIGTERM"}
    /\ pc' = "reg_sigint"
    /\ UNCHANGED <<constVars, hpc, hproc, worker_process, newproc, procVars,
                   pollVars>>

\* Lines 137-139.
RegisterSIGINT ==
    /\ MainAt("reg_sigint")
    /\ handlers' = handlers \cup {"SIGINT"}
    /\ pc' = "loop"
    /\ UNCHANGED <<constVars, hpc, hproc, worker_process, newproc, procVars,
                   pollVars>>

(***************************************************************************)
(* The watch loop, lines 140-161                                           *)
(***************************************************************************)

\* Variant of Newer: elif mtime >= old_time.
NewerOrEqual(mtime, old_time) == mtime >= old_time

\* Variant of Newer: elif mtime != old_time.
NewerOrOlder(mtime, old_time) == mtime # old_time

\* Line 152: elif mtime > old_time.
Newer(mtime, old_time) == mtime > old_time

\* Variant of ReloadOnStat: mtimes.get(filename, 0), a missing entry counts as 0.
ReloadOnStatDefaultZero(has, old_time, mtime) ==
    mtime > (IF has THEN old_time ELSE 0)

\* Lines 149-154 decide need_reload for one stat-ed filename: has tells
\* whether mtimes.get(filename) found an entry, old_time is that entry.
ReloadOnStat(has, old_time, mtime) == has /\ Newer(mtime, old_time)

\* Lines 149-153 store the new time for a first sight and for a newer time.
RecordOnStat(has, old_time, mtime) == ~has \/ Newer(mtime, old_time)

\* The entry mtimes.get(p) returns, 0 standing in for None when has is false.
OldTime(p) == IF p \in DOMAIN mtimes THEN mtimes[p] ELSE 0

\* mtimes[p] = t
Store(p, t) == [q \in DOMAIN mtimes \cup {p} |-> IF q = p THEN t ELSE mtimes[q]]

\* What os.stat(filename).st_mtime does: it returns a time or raises OSError.
StatRaised == [ok |-> FALSE, mtime |-> 0]
StatResults == {[ok |-> TRUE, mtime |-> t] : t \in Times} \cup {StatRaised}

\* Variant of MtimesAfter: the entry of a path that cannot be stat-ed is
\* dropped (except OSError: mtimes.pop(filename, None)).
MtimesAfterForgetting(p, st) ==
    IF st.ok
    THEN IF RecordOnStat(p \in DOMAIN mtimes, OldTime(p), st.mtime)
         THEN Store(p, st.mtime) ELSE mtimes
    ELSE [q \in DOMAIN mtimes \ {p} |-> mtimes[q]]

\* The dict mtimes after lines 144-153 for filename p: except OSError leaves
\* it as it is.
MtimesAfter(p, st) ==
    IF st.ok
    THEN IF RecordOnStat(p \in DOMAIN mtimes, OldTime(p), st.mtime)
         THEN Store(p, st.mtime) ELSE mtimes
    ELSE mtimes

\* One observation of the cycle: the path, whether it had an entry and which,
\* whether os.stat succeeded and what it returned.
Observation(p, st) ==
    [path |-> p, has |-> p \in DOMAIN mtimes, old |-> OldTime(p),
     ok |-> st.ok, mtime |-> st.mtime]

\* Line 141 and the call of _iter_module_files() at line 143.  The guard caps
\* the number of launches of a run: a cycle starts only if it can relaunch.
LoopTop ==
    /\ MainAt("loop")
    /\ launched < MaxLaunch
    /\ need_reload' = FALSE
    /\ yielded' = 0
    /\ obs' = << >>
    /\ pc' = "iter"
    /\ UNCHANGED <<constVars, hpc, hproc, handlers, worker_process, newproc,
                   procVars, mtimes, detected>>

\* Lines 143-154 for one filename p the generator yields; st is what os.stat
\* does for it now (the files are written, deleted and restored by others).
PollFile(p, st) ==
    /\ MainAt("iter")
    /\ yielded < MaxFiles
    /\ yielded' = yielded + 1
    /\ obs' = Append(obs, Observation(p, st))
    /\ mtimes' = MtimesAfter(p, st)
    /\ IF st.ok
       THEN need_reload' =
               (need_reload \/ ReloadOnStat(p \in DOMAIN mtimes, OldTime(p), st.mtime))
       ELSE \* except OSError: continue
            UNCHANGED need_reload
    /\ UNCHANGED <<constVars, pc, hpc, hproc, handlers, worker_process, newproc,
                   procVars, detected>>

\* The generator is exhausted: the for loop ends.
EndFor ==
    /\ MainAt("iter")
    /\ pc' = "decide"
    /\ UNCHANGED <<constVars, hpc, hproc, handlers, worker_process, newproc,
                   procVars, pollVars>>

\* Variant of RestartWanted: a worker that has exited is restarted too.
RestartWantedOrWorkerGone == need_reload \/ worker_process \notin alive

\* The condition of line 156.
RestartWanted == need_reload

\* Line 156: if need_reload.  The for loop is over: the generator and the
\* record of what the cycle saw are dropped.
Decide ==
    /\ MainAt("decide")
    /\ pc' = IF RestartWanted THEN "killtree" ELSE "sleep"
    /\ obs' = << >>
    /\ yielded' = 0
    /\ detected' = IF need_reload THEN detected + 1 ELSE detected
    /\ UNCHANGED <<constVars, hpc, hproc, handlers, worker_process, newproc,
                   procVars, mtimes, need_reload>>

(***************************************************************************)
(* ProcessTreeTerminator                                                   *)
(***************************************************************************)

\* kill_process_children(c.pid).  darwin: subprocess.run(pkill) returns.
\* Any other platform: pass.  linux: kill_process_children_unix reads
\* /proc/<pid>/task/<pid>/children of a running process; a listed process that
\* exits between os.path.isfile (line 77) and open (line 79) makes open raise
\* FileNotFoundError, which nothing catches.  An exited child that nobody
\* waited for has an empty list, so the call returns.
KillChildrenOutcomes(c) ==
    IF platform = "linux" /\ c \in alive THEN {"returned", "raised"} ELSE {"returned"}

\* proc.terminate(): Popen.terminate sends SIGTERM.
TerminateSignal == "SIGTERM"

\* Variant of Terminate: the call of terminate() is left out.
TerminateSkipped(c) == sent

Terminate(c) == [sent EXCEPT ![c] = @ \cup {TerminateSignal}]

\* Line 157.
KillTree ==
    /\ MainAt("killtree")
    /\ \E r \in KillChildrenOutcomes(worker_process) :
          IF r = "returned"
          THEN /\ treeKilled' = treeKilled \cup {worker_process}
               /\ pc' = "terminate"
          ELSE /\ pc' = "error"
               /\ UNCHANGED treeKilled
    /\ UNCHANGED <<constVars, hpc, hproc, handlers, worker_process, newproc,
                   launched, alive, sent, pollVars>>

\* Line 158.
TerminateWorker ==
    /\ MainAt("terminate")
    /\ sent' = Terminate(worker_process)
    /\ pc' = "relaunch"
    /\ UNCHANGED <<constVars, hpc, hproc, handlers, worker_process, newproc,
                   launched, alive, treeKilled, pollVars>>

\* Line 159, the call: the new child runs, the variable still names the old one.
Relaunch ==
    /\ MainAt("relaunch")
    /\ launched < MaxLaunch
    /\ \E started \in PopenOutcomes :
          IF started
          THEN /\ launched' = launched + 1
               /\ alive' = alive \cup {launched + 1}
               /\ newproc' = launched + 1
               /\ pc' = "assign"
          ELSE /\ pc' = "error"
               /\ UNCHANGED <<launched, alive, newproc>>
    /\ UNCHANGED <<constVars, hpc, hproc, handlers, worker_process, sent,
                   treeKilled, pollVars>>

\* Line 159, the store to worker_process.
Assign ==
    /\ MainAt("assign")
    /\ worker_process' = newproc
    /\ newproc' = 0
    /\ pc' = "sleep"
    /\ UNCHANGED <<constVars, hpc, hproc, handlers, procVars, pollVars>>

\* Line 161.
Sleep ==
    /\ MainAt("sleep")
    /\ pc' = "loop"
    /\ UNCHANGED <<constVars, hpc, hproc, handlers, worker_process, newproc,
                   procVars, pollVars>>

(***************************************************************************)
(* Signals, lines 115-123 and 134-139                                      *)
(***************************************************************************)

\* Variant of HandlerTarget: the lambda binds the child at registration
\* (lambda *args, proc=worker_process: ...), which is the initial child.
HandlerTargetAtRegistration == IF launched >= 1 THEN 1 ELSE 0

\* The lambdas read the closure variable worker_process when they run.
HandlerTarget == worker_process

\* A signal is delivered to the supervisor between two statements.  Neither
\* a handler nor a default disposition returns to the for loop, so the record
\* of what the loop saw is dropped.
Signal(sig) ==
    /\ Running
    /\ hpc = "none"
    /\ IF sig \in handlers
       THEN /\ hpc' = "killtree"
            /\ hproc' = HandlerTarget
            /\ pc' = pc
       ELSE \* default disposition: SIGTERM ends the process, SIGINT raises
            \* KeyboardInterrupt, which leaves watchdog()
            /\ pc' = IF sig = "SIGTERM" THEN "killed" ELSE "interrupted"
            /\ UNCHANGED <<hpc, hproc>>
    /\ obs' = << >>
    /\ UNCHANGED <<constVars, handlers, worker_process, newproc, procVars,
                   mtimes, need_reload, yielded, detected>>

\* Line 121.
HandlerKillTree ==
    /\ Running
    /\ hpc = "killtree"
    /\ \E r \in KillChildrenOutcomes(hproc) :
          IF r = "returned"
          THEN /\ treeKilled' = treeKilled \cup {hproc}
               /\ hpc' = "terminate"
               /\ pc' = pc
          ELSE \* the exception leaves the handler and then watchdog()
               /\ hpc' = "raised"
               /\ pc' = "error"
               /\ UNCHANGED treeKilled
    /\ UNCHANGED <<constVars, hproc, handlers, worker_process, newproc,
                   launched, alive, sent, pollVars>>

\* Line 122.
HandlerTerminate ==
    /\ Running
    /\ hpc = "terminate"
    /\ sent' = Terminate(hproc)
    /\ hpc' = "exit"
    /\ UNCHANGED <<constVars, pc, hproc, handlers, worker_process, newproc,
                   launched, alive, treeKilled, pollVars>>

\* Line 123: os._exit(0).
HandlerExit ==
    /\ Running
    /\ hpc = "exit"
    /\ hpc' = "done"
    /\ pc' = "exited"
    /\ UNCHANGED <<constVars, hproc, handlers, worker_process, newproc,
                   procVars, pollVars>>

(***************************************************************************)
(* Environment                                                             *)
(***************************************************************************)

\* A child ends, on its own or because of a signal it received.  A child
\* that was sent SIGTERM may also never take this step.
ChildExit(c) ==
    /\ Running
    /\ c \in alive
    /\ alive' = alive \ {c}
    /\ UNCHANGED <<constVars, pc, hpc, hproc, handlers, worker_process, newproc,
                   launched, sent, treeKilled, pollVars>>

(***************************************************************************)
(* kill_process_children on a process tree, lines 60-112                   *)
(*                                                                         *)
(* The call is followed statement by statement while the processes of the  *)
(* tree exit on their own.  A process that has exited and was reaped has   *)
(* no /proc entry; its children are re-parented away from the tree.        *)
(***************************************************************************)

\* The pid argument.
TreeRoot == 1

\* The process trees: every process but the root has a parent of smaller pid
\* or none (0: it is not a descendant of the root).
TreeShapes ==
    {f \in [TreePids -> 0..NumProcs] :
        /\ f[TreeRoot] = 0
        /\ \A p \in TreePids \ {TreeRoot} : f[p] < p}

\* What /proc/<p>/task/<p>/children lists.
LiveChildren(p) == {q \in talive : tparent[q] = p}

\* os.path.isfile("/proc/<p>/task/<p>/children") and a later open succeed
\* while the process exists.
ProcFileExists(p) == p \in talive

\* The call starts on a tree of running processes.
TreeInit ==
    /\ platform \in Platforms
    /\ argv0 = "app.py"
    /\ pc = "tree"
    /\ hpc = "none"
    /\ hproc = 0
    /\ handlers = {}
    /\ worker_process = 0
    /\ newproc = 0
    /\ launched = 0
    /\ alive = {}
    /\ sent = [c \in Children |-> {}]
    /\ treeKilled = {}
    /\ mtimes = [p \in {} |-> 0]
    /\ need_reload = FALSE
    /\ yielded = 0
    /\ obs = << >>
    /\ detected = 0
    /\ tpc = "dispatch"
    /\ tparent \in TreeShapes
    /\ talive = TreePids
    /\ children_list_pid = {}
    /\ child_pid = 0
    /\ children_list_pid_2 = {}
    /\ rlist = {}
    /\ listed = {}
    /\ signaled = {}
    /\ EnumIdle

mainVars == <<platform, argv0, pc, hpc, hproc, handlers, worker_process, newproc,
              launched, alive, sent, treeKilled, mtimes, need_reload, yielded, obs,
              detected, enumVars>>

\* Lines 107-112 of kill_process_children.
TreeDispatch ==
    /\ tpc = "dispatch"
    /\ tpc' = IF platform = "darwin" THEN "pkill"
              ELSE IF platform = "linux" THEN "isfile_root"
              ELSE "done"
    /\ UNCHANGED <<mainVars, tparent, talive, children_list_pid, child_pid,
                   children_list_pid_2, rlist, listed, signaled>>

\* Line 98: pkill -P <pid> signals the processes whose parent is pid.
KillChildrenOsx ==
    /\ tpc = "pkill"
    /\ signaled' = signaled \cup LiveChildren(TreeRoot)
    /\ tpc' = "done"
    /\ UNCHANGED <<mainVars, tparent, talive, children_list_pid, child_pid,
                   children_list_pid_2, rlist, listed>>

\* Lines 66-68.
UnixIsfileRoot ==
    /\ tpc = "isfile_root"
    /\ tpc' = IF ProcFileExists(TreeRoot) THEN "open_root" ELSE "done"
    /\ UNCHANGED <<mainVars, tparent, talive, children_list_pid, child_pid,
                   children_list_pid_2, rlist, listed, signaled>>

\* Lines 69-70: open raises FileNotFoundError when the file is gone.
UnixOpenRoot ==
    /\ tpc = "open_root"
    /\ IF ProcFileExists(TreeRoot)
       THEN /\ children_list_pid' = LiveChildren(TreeRoot)
            /\ rlist' = LiveChildren(TreeRoot)
            /\ tpc' = "next_child"
       ELSE /\ tpc' = "raised"
            /\ UNCHANGED <<children_list_pid, rlist>>
    /\ UNCHANGED <<mainVars, tparent, talive, child_pid, children_list_pid_2,
                   listed, signaled>>

\* Line 72: the for loop takes the next pid or ends.
UnixNextChild ==
    /\ tpc = "next_child"
    /\ IF children_list_pid = {}
       THEN /\ tpc' = "done"
            /\ UNCHANGED <<children_list_pid, child_pid>>
       ELSE \E c \in children_list_pid :
               /\ child_pid' = c
               /\ children_list_pid' = children_list_pid \ {c}
               /\ tpc' = "isfile_child"
    /\ UNCHANGED <<mainVars, tparent, talive, children_list_pid_2, rlist, listed,
                   signaled>>

\* Lines 73-78: continue when the child's file does not exist.
UnixIsfileChild ==
    /\ tpc = "isfile_child"
    /\ tpc' = IF ProcFileExists(child_pid) THEN "open_child" ELSE "next_child"
    /\ UNCHANGED <<mainVars, tparent, talive, children_list_pid, child_pid,
                   children_list_pid_2, rlist, listed, signaled>>

\* Lines 79-80.
UnixOpenChild ==
    /\ tpc = "open_child"
    /\ IF ProcFileExists(child_pid)
       THEN /\ children_list_pid_2' = LiveChildren(child_pid)
            /\ listed' = listed \cup {<<child_pid, g>> : g \in LiveChildren(child_pid)}
            /\ tpc' = "kill_grand"
       ELSE /\ tpc' = "raised"
            /\ UNCHANGED <<children_list_pid_2, listed>>
    /\ UNCHANGED <<mainVars, tparent, talive, children_list_pid, child_pid, rlist,
                   signaled>>

\* Variant of InnerLoopOver: line 86 is reached whatever is left of the list
\* (the kill of the child moved in front of the inner loop's work).
InnerLoopSkipped(list) == TRUE

\* Line 81: the inner for loop is over when its list is used up.
InnerLoopOver(list) == list = {}

\* Lines 81-85: os.kill of one grandchild, ProcessLookupError is caught.
UnixKillGrandchild ==
    /\ tpc = "kill_grand"
    /\ IF InnerLoopOver(children_list_pid_2)
       THEN /\ tpc' = "kill_child"
            /\ UNCHANGED <<children_list_pid_2, signaled>>
       ELSE \E g \in children_list_pid_2 :
               /\ signaled' = signaled \cup {g}
               /\ children_list_pid_2' = children_list_pid_2 \ {g}
               /\ tpc' = "kill_grand"
    /\ UNCHANGED <<mainVars, tparent, talive, children_list_pid, child_pid, rlist,
                   listed>>

\* Lines 86-89: os.kill of the child, ProcessLookupError is caught.
UnixKillChild ==
    /\ tpc = "kill_child"
    /\ signaled' = signaled \cup {child_pid}
    /\ tpc' = "next_child"
    /\ UNCHANGED <<mainVars, tparent, talive, children_list_pid, child_pid,
                   children_list_pid_2, rlist, listed>>

\* A process of the tree exits and is reaped while the call runs; its
\* children leave the tree.
TreeExit(p) ==
    /\ tpc \notin {"idle", "done", "raised"}
    /\ p \in talive
    /\ talive' = talive \ {p}
    /\ tparent' = [q \in TreePids |-> IF tparent[q] = p THEN 0 ELSE tparent[q]]
    /\ UNCHANGED <<mainVars, tpc, children_list_pid, child_pid,
                   children_list_pid_2, rlist, listed, signaled>>

TreeNext ==
    \/ TreeDispatch
    \/ KillChildrenOsx
    \/ UnixIsfileRoot
    \/ UnixOpenRoot
    \/ UnixNextChild
    \/ UnixIsfileChild
    \/ UnixOpenChild
    \/ UnixKillGrandchild
    \/ UnixKillChild
    \/ \E p \in TreePids : TreeExit(p)

SpecTree == TreeInit /\ [][TreeNext]_vars

(***************************************************************************)
(* _iter_module_files on one module, lines 18-32                           *)
(*                                                                         *)
(* A path is its list of components and whether it starts at the root:     *)
(* "/pkg/mod.py" is abs with <<"pkg", "mod.py">>, "/" is abs with << >>,   *)
(* "" is not abs with << >>.                                               *)
(***************************************************************************)

EnumNames == {"pkg", "lib.zip", "mod.py", "mod.pyc", "mod.pyo"}

RECURSIVE SeqsUpTo(_)
SeqsUpTo(n) == IF n = 0 THEN {<< >>}
               ELSE SeqsUpTo(n - 1) \cup [1..n -> EnumNames]

\* The values of __file__; the empty path also stands for a module that is
\* None or has no __file__ (line 21 turns both into None).
EnumFiles == [abs : BOOLEAN, comps : SeqsUpTo(MaxDepth)]

\* os.path.dirname: the path without its last component; "/" and "" are
\* their own dirname.
Dirname(f) ==
    IF f.comps = << >> THEN f
    ELSE [f EXCEPT !.comps = SubSeq(f.comps, 1, Len(f.comps) - 1)]

\* Line 22: if filename.  None and "" are false.
Truthy(f) == f # EmptyPath

\* What os.path.isfile(f) may return: "/" and "" are never files, any other
\* path is a file or not, as the disk has it at the time of the call.
IsfileResults(f) == IF f.comps = << >> THEN {FALSE} ELSE BOOLEAN

\* n[:-1] for a name n with n[-4:] in (".pyc", ".pyo"), n otherwise.
SourceName(n) == IF n \in {"mod.pyc", "mod.pyo"} THEN "mod.py" ELSE n

\* Lines 30-31 applied to a path.
Normalised(f) ==
    IF f.comps = << >> THEN f
    ELSE [f EXCEPT !.comps[Len(f.comps)] = SourceName(@)]

\* f is p or one of the directories above p.
IsPrefix(f, p) ==
    /\ f.abs = p.abs
    /\ Len(f.comps) <= Len(p.comps)
    /\ f.comps = SubSeq(p.comps, 1, Len(f.comps))

\* The generator takes one module of sys.modules.
EnumInit ==
    /\ platform \in Platforms
    /\ argv0 = "app.py"
    /\ pc = "enum"
    /\ hpc = "none"
    /\ hproc = 0
    /\ handlers = {}
    /\ worker_process = 0
    /\ newproc = 0
    /\ launched = 0
    /\ alive = {}
    /\ sent = [c \in Children |-> {}]
    /\ treeKilled = {}
    /\ mtimes = [p \in {} |-> 0]
    /\ need_reload = FALSE
    /\ yielded = 0
    /\ obs = << >>
    /\ detected = 0
    /\ TreeIdle
    /\ epc = "module"
    /\ efile \in EnumFiles
    /\ filename = EmptyPath
    /\ old = << >>
    /\ walked = 0
    /\ efound = << >>
    /\ eyield = << >>

\* What a step of the generator leaves alone.
outsideEnum == <<platform, argv0, pc, hpc, hproc, handlers, worker_process,
                 newproc, launched, alive, sent, treeKilled, mtimes, need_reload,
                 yielded, obs, detected, treeVars, efile>>

\* Lines 19-23.
EnumModule ==
    /\ epc = "module"
    /\ filename' = efile
    /\ old' = << >>
    /\ epc' = IF Truthy(efile) THEN "while" ELSE "done"
    /\ UNCHANGED <<walked, efound, eyield, outsideEnum>>

\* Line 24: while not os.path.isfile(filename).
EnumWhile(isfile) ==
    /\ epc = "while"
    /\ isfile \in IsfileResults(filename)
    /\ epc' = IF isfile THEN "else" ELSE "body"
    /\ efound' = IF isfile THEN <<filename>> ELSE efound
    /\ UNCHANGED <<filename, old, walked, eyield, outsideEnum>>

\* Variant of FixedPoint: the test of line 27 is left out.
FixedPointNever(f, o) == FALSE

\* Line 27: if filename == old.
FixedPoint(f, o) == o = <<f>>

\* Lines 25-28.  The guard caps walked for a loop that does not end.
EnumBody ==
    /\ epc = "body"
    /\ walked <= MaxDepth + 1
    /\ old' = <<filename>>
    /\ filename' = Dirname(filename)
    /\ walked' = walked + 1
    /\ epc' = IF FixedPoint(filename', old') THEN "done" ELSE "while"
    /\ UNCHANGED <<efound, eyield, outsideEnum>>

\* Lines 29-32: the else of the while loop.
EnumYield ==
    /\ epc = "else"
    /\ eyield' = <<Normalised(filename)>>
    /\ epc' = "done"
    /\ UNCHANGED <<filename, old, walked, efound, outsideEnum>>

EnumNext ==
    \/ EnumModule
    \/ \E isfile \in BOOLEAN : EnumWhile(isfile)
    \/ EnumBody
    \/ EnumYield

\* The generator is running code: a statement that can run does run.
SpecEnum == EnumInit /\ [][EnumNext]_vars /\ WF_vars(EnumNext)

(***************************************************************************)
(* Properties                                                              *)
(***************************************************************************)

\* The main code is between the start of a restart and the store of the new child.
InRestart == pc \in {"killtree", "terminate", "relaunch", "assign"}

\* A handler has been started by a signal.
HandlerStarted == hpc # "none"

\* An observation of a stat-able path with an entry whose time is strictly
\* greater than the entry.
Advanced(o) == o.ok /\ o.has /\ o.mtime > o.old

\* Some observation of the current cycle is Advanced.
CycleAdvanced == \E i \in 1..Len(obs) : Advanced(obs[i])

\* C1: when the supervisor has exited through the signal handler, every
\* child it launched has been sent a termination signal.
C1_NoChildUnsignaled ==
    pc = "exited" => \A c \in 1..launched : sent[c] # {}

\* C2: at the step that makes the newly launched child the current one, the
\* previous child is no longer alive.
C2_OldDeadBeforeNewCurrent ==
    [][(pc = "assign" /\ pc' = "sleep") => worker_process \notin alive]_vars

\* C3: while the supervisor runs at most 2 launched children are alive, and
\* at most 1 outside a restart.
C3_LiveChildrenBounded ==
    Running => /\ Cardinality(alive) <= 2
               /\ ~InRestart => Cardinality(alive) <= 1

\* C4: a running handler acts on the child that the variable worker_process
\* names, the most recently installed one, and once it has terminated a child
\* that child is the one it was sent to.
C4_HandlerActsOnCurrent ==
    /\ HandlerStarted => hproc = worker_process
    /\ hpc \in {"exit", "done"} => "SIGTERM" \in sent[worker_process]

C4_Witness ==
    /\ hpc = "done"
    /\ worker_process = 2
    /\ "SIGTERM" \in sent[2]

\* C5: while the for loop of a cycle runs and when it has ended, need_reload
\* is set if and only if some observation of the cycle found a stat-able path
\* with an entry and a strictly greater time; line 156 enters the restart if
\* and only if that is so, and nothing else enters it.
C5_RestartIffAdvanced ==
    /\ [](MainAt("iter") \/ MainAt("decide") => (need_reload <=> CycleAdvanced))
    /\ [][(MainAt("decide") /\ pc' # "decide") => (pc' = "killtree" <=> CycleAdvanced)]_vars
    /\ [][pc' = "killtree" => pc \in {"decide", "killtree"}]_vars

C5_Witness ==
    /\ pc = "decide"
    /\ CycleAdvanced
    /\ \E i \in 1..Len(obs) : obs[i].ok /\ obs[i].has /\ obs[i].mtime <= obs[i].old

\* C6: the observation of a path without an entry leaves need_reload as it
\* was and, when the path is stat-able, records the time it saw.
C6_FirstSightOnlyBaseline ==
    [][(Len(obs') = Len(obs) + 1 /\ ~obs'[Len(obs')].has)
         => /\ need_reload' = need_reload
            /\ obs'[Len(obs')].ok =>
                  /\ obs'[Len(obs')].path \in DOMAIN mtimes'
                  /\ mtimes'[obs'[Len(obs')].path] = obs'[Len(obs')].mtime]_vars

C6_Witness ==
    /\ pc = "decide"
    /\ launched = 1
    /\ ~need_reload
    /\ \E i \in 1..Len(obs) : ~obs[i].has /\ obs[i].ok /\ obs[i].mtime > 0

\* C7: when the main code has left a cycle that set need_reload, without a
\* signal having been handled, the child that was current has been sent
\* SIGTERM and a new child is launched and current.
C7_AdvanceRestarts ==
    (hpc = "none" /\ need_reload /\ pc \in {"sleep", "error"})
       => /\ pc = "sleep"
          /\ worker_process = launched
          /\ worker_process > 1
          /\ "SIGTERM" \in sent[worker_process - 1]

\* C8: once a handler has started, the supervisor does not end with an error,
\* the descendants are signaled before the child is terminated, the child is
\* terminated before the exit, and the exit is the handler's.
C8_SignalShutdownOrder ==
    HandlerStarted =>
       /\ pc # "error"
       /\ hpc \in {"terminate", "exit", "done"} => hproc \in treeKilled
       /\ hpc \in {"exit", "done"} => sent[hproc] # {}
       /\ pc = "exited" <=> hpc = "done"

\* C9: the handler sends the current child a forceful kill, the restart only
\* the graceful SIGTERM.
C9_ForcefulOnShutdown ==
    /\ hpc \in {"exit", "done"} => "SIGKILL" \in sent[hproc]
    /\ (hpc = "none" /\ pc \in {"relaunch", "assign"}) => sent[worker_process] = {"SIGTERM"}

\* C10: once the initial child is launched, the supervisor never ends with an
\* error that leaves watchdog(): it stops through the signal path only.
C10_OnlySignalStops ==
    launched >= 1 => pc # "error"

\* The processes below the root that still exist: its children, their
\* children, and so on.
RECURSIVE Below(_, _)
Below(S, n) ==
    IF n = 0 THEN S
    ELSE Below(S \cup {q \in talive : tparent[q] \in S \cup {TreeRoot}}, n - 1)

LiveDescendants == Below({}, NumProcs)

\* C11: in the tree kill of linux a child is signaled only when every pid
\* read in its child list has been signaled, and the root is never signaled.
C11_GrandchildrenFirst ==
    /\ \A cg \in listed : cg[1] \in signaled => cg[2] \in signaled
    /\ TreeRoot \notin signaled

C11_Witness ==
    /\ platform = "linux"
    /\ tpc = "done"
    /\ \E cg \in listed : cg[1] \in signaled /\ cg[2] \in signaled

\* C12: when the tree kill of linux is over, every pid read in the root's
\* child list and every pid read in a child's list that still exists has been
\* signaled.
C12_AllListedSignaled ==
    (platform = "linux" /\ tpc \in {"done", "raised"}) =>
       /\ \A c \in rlist : c \in talive => c \in signaled
       /\ \A cg \in listed : cg[2] \in talive => cg[2] \in signaled

\* C13: the tree kill never ends by raising, whichever processes exit while
\* it runs.
C13_NeverRaises ==
    tpc # "raised"

\* C14: when the tree kill of macOS is over, every process below the root
\* that still exists has been signaled: the children as in the tree kill of
\* linux, their children, and deeper ones.
C14_OsxSignalsAllDescendants ==
    (platform = "darwin" /\ tpc = "done") => LiveDescendants \subseteq signaled

\* The observation a step of the for loop has just added.
Polled == Len(obs') = Len(obs) + 1
LastObs == obs'[Len(obs')]

\* C15: in a restart the tree kill of the current child has returned before
\* the child is sent SIGTERM, the child has been sent SIGTERM before the new
\* child is launched, the new child is the one that is stored as current, and
\* from there the main code goes to sleep and back to the top of the loop.
C15_RestartOrder ==
    /\ [](pc \in {"terminate", "relaunch", "assign"} => worker_process \in treeKilled)
    /\ [](pc \in {"relaunch", "assign"} => "SIGTERM" \in sent[worker_process])
    /\ [](pc = "assign" => newproc = launched /\ newproc # worker_process)
    /\ [][(launched' # launched /\ launched >= 1)
            => /\ worker_process \in treeKilled
               /\ "SIGTERM" \in sent[worker_process]]_vars
    /\ [][worker_process' # worker_process
            => /\ worker_process' = launched'
               /\ pc' = IF worker_process = 0 THEN "reg_sigterm" ELSE "sleep"]_vars
    /\ [][(MainAt("sleep") /\ pc' # "sleep") => pc' = "loop"]_vars

C15_Witness ==
    /\ MainAt("loop")
    /\ worker_process = 2
    /\ 1 \in treeKilled
    /\ "SIGTERM" \in sent[1]
    /\ sent[2] = {}

\* C16: the observation of a path that cannot be stat-ed leaves the dict
\* mtimes and need_reload as they were and the for loop goes on; when the same
\* path is observed next, it is compared with the entry it had before.
C16_UnreadableSkipped ==
    /\ [][(Polled /\ ~LastObs.ok)
            => /\ mtimes' = mtimes
               /\ need_reload' = need_reload
               /\ pc' = "iter" /\ hpc' = "none"]_vars
    /\ [](\A i \in 1..Len(obs), j \in 1..Len(obs) :
             (i < j /\ ~obs[i].ok /\ obs[j].path = obs[i].path
                /\ \A k \in (i+1)..(j-1) : obs[k].path # obs[i].path)
             => obs[j].has = obs[i].has /\ obs[j].old = obs[i].old)

C16_Witness ==
    /\ pc = "decide"
    /\ need_reload
    /\ Len(obs) = 2
    /\ ~obs[1].ok /\ obs[1].has
    /\ obs[2].path = obs[1].path /\ obs[2].ok /\ obs[2].mtime > obs[1].old

\* C17: with argv[0] "" or "-c" no child is ever launched, no handler is
\* installed and no poll cycle runs; the first step of the main code is the
\* error that leaves watchdog().
C17_BadArgvStartsNothing ==
    /\ [](argv0 \in {"", "-c"} =>
            /\ launched = 0 /\ alive = {} /\ worker_process = 0
            /\ handlers = {}
            /\ pc \in {"launch", "error", "killed", "interrupted"}
            /\ yielded = 0 /\ DOMAIN mtimes = {})
    /\ [][(argv0 \in {"", "-c"} /\ MainAt("launch") /\ pc' \notin {"launch", "killed", "interrupted"})
            => pc' = "error"]_vars

C17_Witness ==
    /\ argv0 = "-c"
    /\ pc = "error"
    /\ launched = 0

\* C19: no step removes an entry of mtimes or lowers it; the observation of
\* a stat-able path whose time is not greater than its entry changes neither
\* mtimes nor need_reload, and need_reload is set by an observation only when
\* the time is strictly greater than the entry.
C19_RecordedTimesMonotone ==
    /\ [][\A p \in DOMAIN mtimes : p \in DOMAIN mtimes' /\ mtimes'[p] >= mtimes[p]]_vars
    /\ [][(Polled /\ LastObs.ok /\ LastObs.has /\ LastObs.mtime <= LastObs.old)
            => mtimes' = mtimes /\ need_reload' = need_reload]_vars
    /\ [][(Polled /\ need_reload' /\ ~need_reload)
            => LastObs.has /\ LastObs.mtime > LastObs.old]_vars

C19_Witness ==
    /\ pc = "decide"
    /\ ~need_reload
    /\ \E i \in 1..Len(obs) : obs[i].ok /\ obs[i].has /\ obs[i].mtime < obs[i].old

\* C20: a child is launched only by the first statement of watchdog() and by
\* line 159 of a cycle whose line 156 found need_reload set, one child at a
\* time; launches never exceed 1 plus the cycles that detected a change, and
\* equal it whenever the main code is in the loop outside a restart; the exit
\* of a child launches nothing.
C20_LaunchesCountChanges ==
    /\ [](launched <= 1 + detected)
    /\ []((hpc = "none" /\ pc \in {"reg_sigterm", "reg_sigint", "loop", "iter", "decide", "sleep"})
            => launched = 1 + detected)
    /\ [][launched' # launched
            => /\ launched' = launched + 1
               /\ pc = "launch" \/ (pc = "relaunch" /\ need_reload)
               /\ alive \subseteq alive']_vars

C20_Witness ==
    /\ MainAt("sleep")
    /\ ~need_reload
    /\ DOMAIN mtimes # {}
    /\ launched = 1
    /\ worker_process \notin alive

\* C18: for a module whose __file__ is not an existing file, the walk up
\* the directory components ends: the while loop runs at most once per
\* component and once more, the generator finishes with the module, and then
\* either isfile found a file at or above __file__, which is what is yielded
\* (under its .py name if it ends in .pyc or .pyo), or the path has stopped
\* shrinking and nothing is yielded.
C18_WalkTerminates ==
    /\ [](walked <= Len(efile.comps) + 1)
    /\ <>(epc = "done")
    /\ []((epc = "done" /\ walked >= 1) =>
            \/ /\ efound = <<filename>>
               /\ IsPrefix(filename, efile)
               /\ filename # efile
               /\ eyield = <<Normalised(filename)>>
            \/ /\ efound = << >>
               /\ eyield = << >>
               /\ filename.comps = << >>
               /\ Dirname(filename) = filename
               /\ old = <<filename>>)

\* C18: a __file__ three levels deep with no existing file on the way up was
\* walked to the fixed point and yielded nothing.
C18_Witness ==
    /\ epc = "done"
    /\ Len(efile.comps) = 3
    /\ walked = 4
    /\ efound = << >>
    /\ eyield = << >>

Next ==
    \/ LaunchInitial
    \/ RegisterSIGTERM
    \/ RegisterSIGINT
    \/ LoopTop
    \/ \E p \in Paths, st \in StatResults : PollFile(p, st)
    \/ EndFor
    \/ Decide
    \/ KillTree
    \/ TerminateWorker
    \/ Relaunch
    \/ Assign
    \/ Sleep
    \/ \E sig \in Signals : Signal(sig)
    \/ HandlerKillTree
    \/ HandlerTerminate
    \/ HandlerExit
    \/ \E c \in Children : ChildExit(c)

Spec == Init /\ [][Next]_vars
====
